---- MODULE Spec2Model ----
(***************************************************************************)
(* Model of irrd/mirroring/scheduler.py: MirrorScheduler, the periodic     *)
(* task scheduler of IRRd, and the ScheduledTaskProcess handles it keeps.  *)
(*                                                                         *)
(* The clock is counted in ticks, TicksPerSecond ticks to a second, so     *)
(* that time.time() has sub-second resolution and int(current_time) is a   *)
(* real truncation.  One call of run(), run_if_relevant() or               *)
(* update_process_state() is one step: the scheduler is single-threaded    *)
(* and never probes a child inside run(), so a child exiting or the clock  *)
(* advancing during a call is the same as it happening right before or     *)
(* right after the call.                                                   *)
(***************************************************************************)
EXTENDS Integers, Sequences, FiniteSets, TLC

VARIABLES
    now,                            \* time.time(), in ticks
    settings,                       \* what get_setting() reads
    processes,                      \* self.processes: name -> state of the handle's process
    last_started_time,              \* self.last_started_time (a defaultdict, default 0)
    previous_scopefilter_prefixes,  \* None is <<>>, a stored value v is <<v>>
    previous_scopefilter_asns,
    previous_scopefilter_excluded,
    unreaped,                       \* per name: OS processes started and not yet reaped
    launch_tick,                    \* per name: current_time of the last successful start
    skipped,                        \* sources the last run() pass left unevaluated at the cap
    scopefilter_pending,            \* a reported scope filter change no update has followed yet
    op                              \* the call that made the last step, and what it returned

vars == <<now, settings, processes, last_started_time, previous_scopefilter_prefixes,
          previous_scopefilter_asns, previous_scopefilter_excluded, unreaped,
          launch_tick, skipped, scopefilter_pending, op>>

\* ------------------------------------------------------------------ bounds
MaxNow == 7
TicksPerSecond == 3

\* --------------------------------------------------------------- constants
MAX_SIMULTANEOUS_RUNS == 3

NoSource == ""
NoFailure == ""

ROAImportRunner == "ROAImportRunner"
RoutePreferenceUpdateRunner == "RoutePreferenceUpdateRunner"
ScopeFilterUpdateRunner == "ScopeFilterUpdateRunner"
RPSLMirrorImportUpdateRunner == "RPSLMirrorImportUpdateRunner"
SourceExportRunner == "SourceExportRunner"

AllSources == {"s1", "s2", "s3", "s4", "s5"}

\* process_name = runner_class.__name__, plus "-<source>" when a source is given
ProcessName(source, runner_class) ==
    IF source /= NoSource THEN runner_class \o "-" \o source ELSE runner_class

Identities ==
    {ProcessName(NoSource, c) :
        c \in {ROAImportRunner, RoutePreferenceUpdateRunner, ScopeFilterUpdateRunner}}
    \cup {ProcessName(s, c) :
        s \in AllSources, c \in {RPSLMirrorImportUpdateRunner, SourceExportRunner}}

\* ---------------------------------------------------------------- settings
SourceSettings(import_source, nrtm_host, import_timer, export_destination, export_destination_unfiltered, export_timer, scopefilter_excluded, route_object_preference) ==
    [import_source |-> import_source, nrtm_host |-> nrtm_host,
     import_timer |-> import_timer, export_destination |-> export_destination,
     export_destination_unfiltered |-> export_destination_unfiltered,
     export_timer |-> export_timer, scopefilter_excluded |-> scopefilter_excluded,
     route_object_preference |-> route_object_preference]

MirrorOnly(import_timer) ==
    SourceSettings(TRUE, FALSE, import_timer, FALSE, FALSE, 0, FALSE, FALSE)

\* One mirrored and exported source and the ROA import, with timers of 0, 1 and 2
\* seconds.
TimerSettings ==
    [readonly_standby |-> FALSE,
     roa_source |-> TRUE, roa_import_timer |-> 2,
     route_object_preference_update_timer |-> 1,
     scopefilter |-> FALSE, scopefilter_prefixes |-> <<>>, scopefilter_asns |-> <<>>,
     source_names |-> <<"s1">>,
     sources |-> ("s1" :> SourceSettings(FALSE, TRUE, 0, FALSE, TRUE, 1, FALSE, FALSE))]

\* Five mirrored sources with timer 0.
CapSettings ==
    [readonly_standby |-> FALSE,
     roa_source |-> FALSE, roa_import_timer |-> 0,
     route_object_preference_update_timer |-> 0,
     scopefilter |-> FALSE, scopefilter_prefixes |-> <<>>, scopefilter_asns |-> <<>>,
     source_names |-> <<"s1", "s2", "s3", "s4", "s5">>,
     sources |-> [s \in AllSources |-> MirrorOnly(0)]]

\* A scope filter and one mirrored source; the filter, the exclusion of the source
\* and the standby flag are what Reconfigure changes.
ScopeSettings ==
    [readonly_standby |-> FALSE,
     roa_source |-> FALSE, roa_import_timer |-> 0,
     route_object_preference_update_timer |-> 0,
     scopefilter |-> TRUE, scopefilter_prefixes |-> <<"p1", "p2">>,
     scopefilter_asns |-> <<>>,
     source_names |-> <<"s1">>,
     sources |-> ("s1" :> MirrorOnly(0))]

\* Four mirrored sources with timer 0.
FairSettings ==
    [readonly_standby |-> FALSE,
     roa_source |-> FALSE, roa_import_timer |-> 0,
     route_object_preference_update_timer |-> 0,
     scopefilter |-> FALSE, scopefilter_prefixes |-> <<>>, scopefilter_asns |-> <<>>,
     source_names |-> <<"s1", "s2", "s3", "s4">>,
     sources |-> [s \in {"s1", "s2", "s3", "s4"} |-> MirrorOnly(0)]]

\* The three singleton jobs and five sources: s1, s2 and s3 mirrored and exported, s4
\* and s5 mirrored. At the clock reading of InitMixed a timer of 2 seconds is reached
\* once, before the first start, and a timer of 0 seconds after every start.
MixedSettings ==
    [readonly_standby |-> FALSE,
     roa_source |-> TRUE, roa_import_timer |-> 2,
     route_object_preference_update_timer |-> 2,
     scopefilter |-> TRUE, scopefilter_prefixes |-> <<"p1">>, scopefilter_asns |-> <<>>,
     source_names |-> <<"s1", "s2", "s3", "s4", "s5">>,
     sources |-> [s \in AllSources |->
                     CASE s = "s1" -> SourceSettings(TRUE, FALSE, 0, TRUE, FALSE, 2, FALSE, TRUE)
                       [] s = "s2" -> SourceSettings(FALSE, TRUE, 2, FALSE, TRUE, 2, FALSE, FALSE)
                       [] s = "s3" -> SourceSettings(TRUE, FALSE, 0, TRUE, FALSE, 0, FALSE, FALSE)
                       [] OTHER -> MirrorOnly(0)]]

\* The children that end in the mixed scenario: the mirror imports and the export of
\* s3; the singleton jobs and the other exports keep running.
ShortLived ==
    {ProcessName(source, RPSLMirrorImportUpdateRunner) : source \in AllSources}
    \cup {ProcessName("s3", SourceExportRunner)}

PrefixLists == {<<"p1", "p2">>, <<"p2", "p1">>}
AsnLists == {<<>>, <<"a1">>}

\* -------------------------------------------------------------- the clock
\* Mutant of IntTime: the start time is rounded up to the next whole second.
IntTimeRoundedUp(current_time) == (current_time + TicksPerSecond - 1) \div TicksPerSecond

\* current_time = now / TicksPerSecond seconds; int() truncates it
IntTime(current_time) == current_time \div TicksPerSecond

\* Mutants of HasExpired: due one second late; due at the boundary instant.
HasExpiredLate(last_started, timer, current_time) ==
    (last_started + timer + 1) * TicksPerSecond < current_time

HasExpiredAtBoundary(last_started, timer, current_time) ==
    (last_started + timer) * TicksPerSecond <= current_time

\* (self.last_started_time[process_name] + timer) < current_time
HasExpired(last_started, timer, current_time) ==
    (last_started + timer) * TicksPerSecond < current_time

\* Mutant of IsRecorded: the recorded handle is not looked at.
IsRecordedIgnored(procs, process_name) == FALSE

\* Mutant of IsRecorded: a handle whose process has ended does not count.
IsRecordedAlive(procs, process_name) ==
    process_name \in DOMAIN procs /\ procs[process_name] = "running"

\* process_name in self.processes
IsRecorded(procs, process_name) == process_name \in DOMAIN procs

\* Mutant of ReadDefault: a missing key is stored as 1, not 0.
ReadDefaultOne(last_started, process_name) ==
    IF process_name \in DOMAIN last_started
    THEN last_started
    ELSE (process_name :> 1) @@ last_started

\* reading a defaultdict stores the default under a missing key
ReadDefault(last_started, process_name) ==
    IF process_name \in DOMAIN last_started
    THEN last_started
    ELSE (process_name :> 0) @@ last_started

\* Mutants of IsAlive: no handle is found alive; only an exited one is found dead.
IsAliveNever(state) == FALSE

IsAliveUnlessExited(state) == state /= "exited"

\* process.is_alive(): a started process that has not exited
IsAlive(state) == state = "running"

\* ScheduledTaskProcess.close(): ValueError while the process is still running
CloseRaises(state) == state = "running"

\* ------------------------------------------------------- run_if_relevant
\* s carries the scheduler's fields through a call; fail names the identity whose
\* process.start() raises (NoFailure: none does).
RunIfRelevant(s, source, runner_class, timer, current_time, fail) ==
    LET process_name == ProcessName(source, runner_class)
        read == ReadDefault(s.last_started_time, process_name)
        has_expired == HasExpired(read[process_name], timer, current_time)
    IN  IF ~has_expired \/ IsRecorded(s.processes, process_name)
        THEN [s EXCEPT !.last_started_time = read, !.ret = FALSE]
        ELSE IF process_name = fail
        THEN [s EXCEPT !.last_started_time = read,
                       !.processes = (process_name :> "unstarted") @@ s.processes,
                       !.raised = TRUE,
                       !.ret = FALSE]
        ELSE [s EXCEPT !.processes = (process_name :> "running") @@ s.processes,
                       !.unreaped[process_name] = @ + 1,
                       !.launch_tick[process_name] = current_time,
                       !.last_started_time =
                           [read EXCEPT ![process_name] = IntTime(current_time)],
                       !.started = @ \cup {process_name},
                       !.relaunched = @ \cup
                           (IF s.launch_tick[process_name] > 0 THEN {process_name} ELSE {}),
                       !.ret = TRUE]

\* Mutant of Call: the pass goes on after a call raised.
CallAfterRaise(s, condition, source, runner_class, timer, current_time, fail) ==
    IF ~condition THEN [s EXCEPT !.ret = FALSE]
    ELSE RunIfRelevant(s, source, runner_class, timer, current_time, fail)

\* A call inside run(): skipped when its condition is false or an earlier call raised.
Call(s, condition, source, runner_class, timer, current_time, fail) ==
    IF s.raised THEN s
    ELSE IF ~condition THEN [s EXCEPT !.ret = FALSE]
    ELSE RunIfRelevant(s, source, runner_class, timer, current_time, fail)

\* ------------------------------------------------ _check_scopefilter_change
CurrentExclusions(cfg) ==
    {name \in DOMAIN cfg.sources : cfg.sources[name].scopefilter_excluded}

\* Mutant of ScopefilterDiffers: the excluded sources are not compared.
ScopefilterDiffersInLists(prefixes, asns, excluded, cfg) ==
    \/ prefixes /= <<cfg.scopefilter_prefixes>>
    \/ asns /= <<cfg.scopefilter_asns>>

\* any([previous != current ...]) over the three fields
ScopefilterDiffers(prefixes, asns, excluded, cfg) ==
    \/ prefixes /= <<cfg.scopefilter_prefixes>>
    \/ asns /= <<cfg.scopefilter_asns>>
    \/ excluded /= <<CurrentExclusions(cfg)>>

CheckScopefilterChange(prefixes, asns, excluded, cfg) ==
    IF ~cfg.scopefilter
    THEN [ret |-> FALSE, prefixes |-> prefixes, asns |-> asns, excluded |-> excluded]
    ELSE IF ScopefilterDiffers(prefixes, asns, excluded, cfg)
    THEN [ret |-> TRUE,
          prefixes |-> <<cfg.scopefilter_prefixes>>,
          asns |-> <<cfg.scopefilter_asns>>,
          excluded |-> <<CurrentExclusions(cfg)>>]
    ELSE [ret |-> FALSE, prefixes |-> prefixes, asns |-> asns, excluded |-> excluded]

\* ---------------------------------------------------------------- run()
\* Mutant of SourceCapReached: the cap is tested one source late.
SourceCapReachedLate(sources_started) == sources_started > MAX_SIMULTANEOUS_RUNS

\* sources_started >= MAX_SIMULTANEOUS_RUNS
SourceCapReached(sources_started) == sources_started >= MAX_SIMULTANEOUS_RUNS

\* Mutant of CountStarted: every process started counts.
CountStartedProcesses(sources_started, started_import, started_export) ==
    sources_started + (IF started_import THEN 1 ELSE 0) + (IF started_export THEN 1 ELSE 0)

\* if started_import or started_export: sources_started += 1
CountStarted(sources_started, started_import, started_export) ==
    IF started_import \/ started_export THEN sources_started + 1 ELSE sources_started

IsMirror(ss) == ss.import_source \/ ss.nrtm_host
RunsExport(ss) == ss.export_destination \/ ss.export_destination_unfiltered

RECURSIVE RunSources(_, _, _, _, _, _)
RunSources(s, i, sources_started, cfg, current_time, fail) ==
    IF i > Len(cfg.source_names) \/ s.raised THEN s
    ELSE IF SourceCapReached(sources_started) THEN s
    ELSE
        LET source == cfg.source_names[i]
            ss == cfg.sources[source]
            s1 == Call(s, IsMirror(ss), source, RPSLMirrorImportUpdateRunner,
                       ss.import_timer, current_time, fail)
            started_import == s1.ret
            s2 == Call(s1, RunsExport(ss), source, SourceExportRunner,
                       ss.export_timer, current_time, fail)
            started_export == ~s1.raised /\ s2.ret
            s3 == [s2 EXCEPT !.evaluated = @ \cup {source}]
        IN  RunSources(s3, i + 1,
                       CountStarted(sources_started, started_import, started_export),
                       cfg, current_time, fail)

AnyRoutePreference(cfg) ==
    /\ Len(cfg.source_names) > 0
    /\ \E name \in DOMAIN cfg.sources : cfg.sources[name].route_object_preference

\* The pass after the readonly_standby test; s.changed is the detector's result.
RunPass(s, cfg, current_time, fail) ==
    LET s1 == Call(s, cfg.roa_source, NoSource, ROAImportRunner,
                   cfg.roa_import_timer, current_time, fail)
        s2 == Call(s1, AnyRoutePreference(cfg), NoSource, RoutePreferenceUpdateRunner,
                   cfg.route_object_preference_update_timer, current_time, fail)
        s3 == Call(s2, s.changed, NoSource, ScopeFilterUpdateRunner, 0,
                   current_time, fail)
    IN  RunSources(s3, 1, 0, cfg, current_time, fail)

\* ------------------------------------------------------------ the steps
Carried ==
    [processes |-> processes, last_started_time |-> last_started_time,
     unreaped |-> unreaped, launch_tick |-> launch_tick,
     started |-> {}, relaunched |-> {}, evaluated |-> {},
     raised |-> FALSE, ret |-> FALSE, changed |-> FALSE]

NoOp(name) ==
    [name |-> name, process_name |-> "", timer |-> 0, ret |-> FALSE, raised |-> FALSE,
     started |-> {}, relaunched |-> {}, changed |-> FALSE, checked |-> FALSE,
     signalled |-> FALSE, closed |-> {}, logged |-> {}, terminated |-> {},
     swallowed |-> {}]

Store(s) ==
    /\ processes' = s.processes
    /\ last_started_time' = s.last_started_time
    /\ unreaped' = s.unreaped
    /\ launch_tick' = s.launch_tick

\* The due jobs a pass would start if it evaluated the source.
Startable(source, cfg, procs, last_started, current_time) ==
    LET ss == cfg.sources[source]
        name == ProcessName(source, RPSLMirrorImportUpdateRunner)
    IN  /\ IsMirror(ss)
        /\ name \notin DOMAIN procs
        /\ (ReadDefault(last_started, name)[name] + ss.import_timer) * TicksPerSecond
               < current_time

SourcesOf(cfg) == {cfg.source_names[i] : i \in 1..Len(cfg.source_names)}

\* Mutant of ReadonlyStandby: the setting is not read.
ReadonlyStandbyIgnored(cfg) == FALSE

\* get_setting("readonly_standby")
ReadonlyStandby(cfg) == cfg.readonly_standby

Run(fail) ==
    IF ReadonlyStandby(settings)
    THEN /\ op' = [NoOp("run") EXCEPT !.signalled = TRUE]
         /\ UNCHANGED <<now, settings, processes, last_started_time,
                        previous_scopefilter_prefixes, previous_scopefilter_asns,
                        previous_scopefilter_excluded, unreaped, launch_tick,
                        skipped, scopefilter_pending>>
    ELSE LET check == CheckScopefilterChange(previous_scopefilter_prefixes,
                          previous_scopefilter_asns, previous_scopefilter_excluded,
                          settings)
             s == RunPass([Carried EXCEPT !.changed = check.ret], settings, now, fail)
             update == ProcessName(NoSource, ScopeFilterUpdateRunner)
         IN  /\ Store(s)
             /\ previous_scopefilter_prefixes' = check.prefixes
             /\ previous_scopefilter_asns' = check.asns
             /\ previous_scopefilter_excluded' = check.excluded
             /\ skipped' = IF s.raised THEN {}
                           ELSE {source \in SourcesOf(settings) \ s.evaluated :
                                    Startable(source, settings, processes,
                                              last_started_time, now)}
             /\ scopefilter_pending' =
                    IF update \in s.started THEN FALSE
                    ELSE scopefilter_pending \/ check.ret
             /\ op' = [NoOp("run") EXCEPT !.started = s.started,
                                          !.relaunched = s.relaunched,
                                          !.raised = s.raised,
                                          !.checked = TRUE,
                                          !.changed = check.ret]
             /\ UNCHANGED <<now, settings>>

\* The jobs run() evaluates by their timers under the current settings, as (source,
\* class, timer).
Jobs(cfg) ==
    (IF cfg.roa_source
     THEN {<<NoSource, ROAImportRunner, cfg.roa_import_timer>>} ELSE {})
    \cup (IF AnyRoutePreference(cfg)
          THEN {<<NoSource, RoutePreferenceUpdateRunner,
                  cfg.route_object_preference_update_timer>>} ELSE {})
    \cup {<<source, RPSLMirrorImportUpdateRunner, cfg.sources[source].import_timer>> :
             source \in {x \in SourcesOf(cfg) : IsMirror(cfg.sources[x])}}
    \cup {<<source, SourceExportRunner, cfg.sources[source].export_timer>> :
             source \in {x \in SourcesOf(cfg) : RunsExport(cfg.sources[x])}}

\* A direct call of run_if_relevant(source, runner_class, timer).
RunIfRelevantCall(job, fail) ==
    LET s == RunIfRelevant(Carried, job[1], job[2], job[3], now, fail)
        name == ProcessName(job[1], job[2])
    IN  /\ Store(s)
        /\ op' = [NoOp("run_if_relevant") EXCEPT !.process_name = name,
                                                  !.timer = job[3],
                                                  !.ret = s.ret,
                                                  !.raised = s.raised,
                                                  !.started = s.started,
                                                  !.relaunched = s.relaunched]
        /\ scopefilter_pending' =
               IF ProcessName(NoSource, ScopeFilterUpdateRunner) \in s.started
               THEN FALSE ELSE scopefilter_pending
        /\ UNCHANGED <<now, settings, previous_scopefilter_prefixes,
                       previous_scopefilter_asns, previous_scopefilter_excluded, skipped>>

\* Mutant of Dropped: a handle whose close() raised stays recorded.
DroppedWhenClosed(procs, close_fails) ==
    {name \in DOMAIN procs : ~IsAlive(procs[name])} \ close_fails

\* Mutant of Dropped: every handle is deleted, alive or not.
DroppedAll(procs, close_fails) == DOMAIN procs

\* A handle update_process_state() drops: every one whose process is not alive,
\* whether or not its close() raised (the except clause only logs).
Dropped(procs, close_fails) == {name \in DOMAIN procs : ~IsAlive(procs[name])}

\* The handles update_process_state() calls close() on: those not found alive.
Closed(procs) == {name \in DOMAIN procs : ~IsAlive(procs[name])}

\* update_process_state(); close_fails are the handles whose close() raises for a
\* reason of the operating system.
UpdateProcessState(close_fails) ==
    LET dead == Closed(processes)
        dropped == Dropped(processes, close_fails)
        raising == close_fails \cup {name \in dead : CloseRaises(processes[name])}
    IN  /\ close_fails \subseteq dead
        /\ processes' = [name \in DOMAIN processes \ dropped |-> processes[name]]
        /\ unreaped' = [name \in Identities |->
                           IF name \in dropped /\ processes[name] = "exited"
                           THEN unreaped[name] - 1 ELSE unreaped[name]]
        /\ op' = [NoOp("update_process_state") EXCEPT !.closed = dead,
                                                       !.logged = raising]
        /\ UNCHANGED <<now, settings, last_started_time, previous_scopefilter_prefixes,
                       previous_scopefilter_asns, previous_scopefilter_excluded,
                       launch_tick, skipped, scopefilter_pending>>

\* Mutant of TerminateRequested: one try around the whole loop, so that an error
\* ends it at the child that raised.
TerminateRequestedUntilError(procs, errors) ==
    IF errors = {} THEN DOMAIN procs ELSE errors

\* The handles terminate_children() calls terminate() on: the try is inside the loop.
TerminateRequested(procs, errors) == DOMAIN procs

\* terminate_children(); errors are the handles whose terminate() or join() raises.
\* join() returns when the child has ended.
TerminateChildren(errors) ==
    LET \* terminate() of a handle that never started raises as well
        raising == errors \cup {name \in DOMAIN processes : processes[name] = "unstarted"}
        requested == TerminateRequested(processes, raising)
    IN  /\ errors \subseteq DOMAIN processes
        /\ processes' = [name \in DOMAIN processes |->
                             IF name \in requested \ raising /\ processes[name] = "running"
                             THEN "exited" ELSE processes[name]]
        /\ op' = [NoOp("terminate_children") EXCEPT !.terminated = requested,
                                                     !.swallowed = raising \cap requested]
        /\ UNCHANGED <<now, settings, last_started_time, previous_scopefilter_prefixes,
                       previous_scopefilter_asns, previous_scopefilter_excluded, unreaped,
                       launch_tick, skipped, scopefilter_pending>>

\* A child process ends (its runner returned or raised).
ProcessExit(name) ==
    /\ name \in DOMAIN processes
    /\ processes[name] = "running"
    /\ processes' = [processes EXCEPT ![name] = "exited"]
    /\ op' = NoOp("exit")
    /\ UNCHANGED <<now, settings, last_started_time, previous_scopefilter_prefixes,
                   previous_scopefilter_asns, previous_scopefilter_excluded, unreaped,
                   launch_tick, skipped, scopefilter_pending>>

Tick ==
    /\ now < MaxNow
    /\ now' = now + 1
    /\ op' = NoOp("tick")
    /\ UNCHANGED <<settings, processes, last_started_time, previous_scopefilter_prefixes,
                   previous_scopefilter_asns, previous_scopefilter_excluded, unreaped,
                   launch_tick, skipped, scopefilter_pending>>

\* The settings change between calls.
Reconfigure(cfg) ==
    /\ cfg /= settings
    /\ settings' = cfg
    /\ op' = NoOp("reconfigure")
    /\ UNCHANGED <<now, processes, last_started_time, previous_scopefilter_prefixes,
                   previous_scopefilter_asns, previous_scopefilter_excluded, unreaped,
                   launch_tick, skipped, scopefilter_pending>>

\* One setting changed: the standby flag, the scope filter switch, its prefixes, its
\* ASNs, or the exclusion of a source.
Reconfigurations(cfg) ==
    {[cfg EXCEPT !.readonly_standby = ~@], [cfg EXCEPT !.scopefilter = ~@]}
    \cup {[cfg EXCEPT !.scopefilter_prefixes = prefixes] :
              prefixes \in PrefixLists \ {cfg.scopefilter_prefixes}}
    \cup {[cfg EXCEPT !.scopefilter_asns = asns] : asns \in AsnLists \ {cfg.scopefilter_asns}}
    \cup {[cfg EXCEPT !.sources[source].scopefilter_excluded = ~@] :
              source \in SourcesOf(cfg)}

\* ------------------------------------------------------- specifications
\* __init__, at some positive clock reading
InitWith(cfg, clock) ==
    /\ now \in clock
    /\ settings = cfg
    /\ processes = <<>>
    /\ last_started_time = <<>>
    /\ previous_scopefilter_prefixes = <<>>
    /\ previous_scopefilter_asns = <<>>
    /\ previous_scopefilter_excluded = <<>>
    /\ unreaped = [name \in Identities |-> 0]
    /\ launch_tick = [name \in Identities |-> 0]
    /\ skipped = {}
    /\ scopefilter_pending = FALSE
    /\ op = NoOp("init")

Init == InitWith(TimerSettings, 1..TicksPerSecond)

Next ==
    \/ Tick
    \/ Run(NoFailure)
    \/ \E job \in Jobs(settings) : RunIfRelevantCall(job, NoFailure)
    \/ \E name \in Identities : ProcessExit(name)
    \/ \E close_fails \in SUBSET DOMAIN processes : UpdateProcessState(close_fails)

Spec == Init /\ [][Next]_vars

\* Five sources under fixed settings, the daemon starting late on the clock.
InitCap == InitWith(CapSettings, {MaxNow - 1})

NextCap ==
    \/ Tick
    \/ Run(NoFailure)
    \/ \E name \in Identities : ProcessExit(name)
    \/ UpdateProcessState({})

SpecCap == InitCap /\ [][NextCap]_vars

\* A scope filter whose settings change, and the standby flag; the calls follow one
\* another within one tick of the clock, one tick past a whole second.
InitScope == InitWith(ScopeSettings, {2 * TicksPerSecond + 1})

NextScope ==
    \/ Run(NoFailure)
    \/ \E job \in Jobs(settings) : RunIfRelevantCall(job, NoFailure)
    \/ \E name \in Identities : ProcessExit(name)
    \/ UpdateProcessState({})
    \/ \E cfg \in Reconfigurations(settings) : Reconfigure(cfg)

SpecScope == InitScope /\ [][NextScope]_vars

\* The identity whose process.start() raises in a call, if any.
Failures(cfg) == {NoFailure} \cup {ProcessName(job[1], job[2]) : job \in Jobs(cfg)}

\* The timer settings with process.start(), close(), terminate() and join() failing,
\* and the shutdown call.
NextFault ==
    \/ Tick
    \/ \E fail \in Failures(settings) : Run(fail)
    \/ \E job \in Jobs(settings) :
           \E fail \in {NoFailure, ProcessName(job[1], job[2])} : RunIfRelevantCall(job, fail)
    \/ \E name \in Identities : ProcessExit(name)
    \/ \E close_fails \in SUBSET DOMAIN processes : UpdateProcessState(close_fails)
    \/ \E errors \in SUBSET DOMAIN processes : TerminateChildren(errors)

SpecFault == Init /\ [][NextFault]_vars

\* The timer settings when update_process_state() is never called.
NextNoReap ==
    \/ Tick
    \/ Run(NoFailure)
    \/ \E job \in Jobs(settings) : RunIfRelevantCall(job, NoFailure)
    \/ \E name \in Identities : ProcessExit(name)

SpecNoReap == Init /\ [][NextNoReap]_vars

\* The clock goes on past MaxNow: every reading, the stored last starts included, is
\* taken relative to an origin that moves forward by one second. A last start before
\* the new origin is kept as 0; with timers of 0 seconds it stays due all the same.
\* The tick of a start made before the move is kept as 1, the earliest reading.
ClockRebase ==
    /\ now = MaxNow
    /\ now' = now + 1 - TicksPerSecond
    /\ last_started_time' = [name \in DOMAIN last_started_time |->
                                 IF last_started_time[name] > 0
                                 THEN last_started_time[name] - 1 ELSE 0]
    /\ launch_tick' = [name \in Identities |-> IF launch_tick[name] > 0 THEN 1 ELSE 0]
    /\ op' = NoOp("tick")
    /\ UNCHANGED <<settings, processes, previous_scopefilter_prefixes,
                   previous_scopefilter_asns, previous_scopefilter_excluded, unreaped,
                   skipped, scopefilter_pending>>

\* Four timer-0 sources under a scheduler loop that never stops: run() and
\* update_process_state() keep being called, every child ends, the clock advances.
InitFair == InitWith(FairSettings, {MaxNow - TicksPerSecond + 1})

NextFair ==
    \/ Tick
    \/ ClockRebase
    \/ Run(NoFailure)
    \/ \E name \in Identities : ProcessExit(name)
    \/ UpdateProcessState({})

SpecFair ==
    /\ InitFair
    /\ [][NextFair]_vars
    /\ WF_vars(Tick)
    /\ WF_vars(ClockRebase)
    /\ []<>(op.name = "run")
    /\ WF_vars(UpdateProcessState({}))
    /\ \A source \in SourcesOf(FairSettings) :
           WF_vars(ProcessExit(ProcessName(source, RPSLMirrorImportUpdateRunner)))

\* The mixed settings: passes, children ending and update_process_state().
InitMixed == InitWith(MixedSettings, {2 * TicksPerSecond + 1})

NextMixed ==
    \/ Run(NoFailure)
    \/ \E name \in ShortLived : ProcessExit(name)
    \/ UpdateProcessState({})

SpecMixed == InitMixed /\ [][NextMixed]_vars

\* ------------------------------------------------------------- the claims
TimerOf(cfg, name) ==
    (CHOOSE job \in Jobs(cfg) : ProcessName(job[1], job[2]) = name)[3]

JobNames(cfg) == {ProcessName(job[1], job[2]) : job \in Jobs(cfg)}

\* The stored last start of a name, 0 when it was never stored.
LastStarted(name) == IF name \in DOMAIN last_started_time THEN last_started_time[name] ELSE 0

\* The step started a process under the name.
Launched(name) == unreaped'[name] > unreaped[name]

\* The step is a call that evaluates the name: a run() pass outside standby, or
\* run_if_relevant for it.
Evaluates(name) ==
    \/ op'.name = "run" /\ ~settings.readonly_standby /\ ~op'.raised
       /\ name \in JobNames(settings)
    \/ op'.name = "run_if_relevant" /\ op'.process_name = name

\* C1: every Job Identity has at most one process started and not yet reaped, and no
\* step starts a process for an identity that has a handle recorded.
C1_OneLivePerIdentity ==
    /\ [](\A name \in Identities : unreaped[name] <= 1)
    /\ [][\A name \in Identities : Launched(name) => name \notin DOMAIN processes]_vars

\* C1 witness: run_if_relevant returned false for a due identity whose process runs.
C1_Witness ==
    /\ op.name = "run_if_relevant"
    /\ ~op.ret
    /\ op.process_name \in DOMAIN processes
    /\ processes[op.process_name] = "running"
    /\ unreaped[op.process_name] = 1
    /\ (LastStarted(op.process_name) + op.timer) * TicksPerSecond < now

\* C2: for a job with timer 0, a call with no handle and no earlier start starts
\* exactly one process (run_if_relevant returns true); a call while the handle is
\* recorded starts none (returns false); a due call after the handle was reaped starts
\* a new process (returns true).
C2_TimerZeroScenario ==
    [][\A name \in JobNames(settings) :
          (TimerOf(settings, name) = 0 /\ Evaluates(name)) =>
              /\ (name \notin DOMAIN processes /\ launch_tick[name] = 0) =>
                     /\ unreaped'[name] = 1
                     /\ op'.name = "run_if_relevant" => op'.ret
              /\ name \in DOMAIN processes =>
                     /\ unreaped'[name] = unreaped[name]
                     /\ processes'[name] = processes[name]
                     /\ op'.name = "run_if_relevant" => ~op'.ret
              /\ (name \notin DOMAIN processes /\ launch_tick[name] > 0
                      /\ LastStarted(name) * TicksPerSecond < now) =>
                     /\ unreaped[name] = 0 /\ unreaped'[name] = 1
                     /\ op'.name = "run_if_relevant" => op'.ret]_vars

\* C2 witness: a run() pass started the timer-0 job again after its handle was reaped.
C2_Witness ==
    /\ op.name = "run"
    /\ \E name \in op.relaunched :
           /\ TimerOf(settings, name) = 0
           /\ processes[name] = "running"
           /\ unreaped[name] = 1

\* C3 as stated: with no handle recorded, run_if_relevant launches if and only if
\* now >= last_started + timer, so also at the boundary instant.
C3_LaunchIffReached ==
    [][(op'.name = "run_if_relevant" /\ op'.process_name \notin DOMAIN processes) =>
          (op'.ret <=>
              now >= (LastStarted(op'.process_name) + op'.timer) * TicksPerSecond)]_vars

\* C3 amended: with no handle recorded, run_if_relevant launches if and only if
\* now > last_started + timer; at the boundary instant it does not launch.
C3_LaunchIffPassed ==
    [][(op'.name = "run_if_relevant" /\ op'.process_name \notin DOMAIN processes) =>
          /\ op'.ret <=>
                 now > (LastStarted(op'.process_name) + op'.timer) * TicksPerSecond
          /\ op'.ret <=> Launched(op'.process_name)]_vars

\* C3 witness: a call at the boundary instant, with no handle recorded, returned false.
C3_Witness ==
    /\ op.name = "run_if_relevant"
    /\ ~op.ret
    /\ op.process_name \notin DOMAIN processes
    /\ op.timer > 0
    /\ now = (LastStarted(op.process_name) + op.timer) * TicksPerSecond

\* C4 as stated: two consecutive successful launches of an identity with timer T are
\* at least T seconds apart.
C4_IntervalElapsed ==
    [][\A name \in JobNames(settings) :
          (Launched(name) /\ launch_tick[name] > 0) =>
              now - launch_tick[name] >= TimerOf(settings, name) * TicksPerSecond]_vars

StartedSources(started) ==
    {source \in AllSources :
        \/ ProcessName(source, RPSLMirrorImportUpdateRunner) \in started
        \/ ProcessName(source, SourceExportRunner) \in started}

AllStartable ==
    \A source \in SourcesOf(settings) :
        Startable(source, settings, processes, last_started_time, now)

\* C5: a run() pass starts jobs for at most MAX_SIMULTANEOUS_RUNS sources; with 5
\* mirrored sources all due and no handle recorded it starts jobs for exactly the first
\* 3 in configuration order.
C5_PerPassCap ==
    [][op'.name = "run" =>
          /\ Cardinality(StartedSources(op'.started)) <= MAX_SIMULTANEOUS_RUNS
          /\ (Len(settings.source_names) = 5 /\ AllStartable) =>
                 /\ StartedSources(op'.started) =
                        {settings.source_names[i] : i \in 1..MAX_SIMULTANEOUS_RUNS}
                 /\ Cardinality(op'.started) = MAX_SIMULTANEOUS_RUNS]_vars

\* C5 witness: a pass started the first three of five sources, and the last two are
\* still due with no handle.
C5_Witness ==
    /\ op.name = "run"
    /\ Len(settings.source_names) = 5
    /\ StartedSources(op.started) = {"s1", "s2", "s3"}
    /\ \A source \in {"s4", "s5"} :
           Startable(source, settings, processes, last_started_time, now)

\* C6 as stated: a source left unevaluated at the cap, still due and without a
\* handle, has its job started by the very next run() pass.
C6_SkippedStartsNextPass ==
    [][op'.name = "run" =>
          \A source \in skipped :
              Startable(source, settings, processes, last_started_time, now) =>
                  Launched(ProcessName(source, RPSLMirrorImportUpdateRunner))]_vars

\* C7: with readonly_standby set, run() starts no process, records no handle and
\* leaves last_started_time and the scope filter snapshot as they are; it only runs
\* the preload signaller.
C7_StandbyStartsNothing ==
    [][(op'.name = "run" /\ settings.readonly_standby) =>
          /\ processes' = processes
          /\ unreaped' = unreaped
          /\ last_started_time' = last_started_time
          /\ previous_scopefilter_prefixes' = previous_scopefilter_prefixes
          /\ previous_scopefilter_asns' = previous_scopefilter_asns
          /\ previous_scopefilter_excluded' = previous_scopefilter_excluded
          /\ op'.started = {}
          /\ op'.signalled
          /\ ~op'.checked]_vars

\* C7 witness: a standby pass ran the signaller while a changed scope filter and a
\* due mirror import were waiting.
C7_Witness ==
    /\ op.name = "run"
    /\ op.signalled
    /\ settings.readonly_standby
    /\ settings.scopefilter
    /\ previous_scopefilter_prefixes /= <<settings.scopefilter_prefixes>>
    /\ Startable("s1", settings, processes, last_started_time, now)

C9_ChangeStartsUpdate ==
    [][(/\ op'.name = "run"
        /\ ~settings.readonly_standby
        /\ scopefilter_pending \/ op'.changed
        /\ ProcessName(NoSource, ScopeFilterUpdateRunner) \notin DOMAIN processes) =>
          Launched(ProcessName(NoSource, ScopeFilterUpdateRunner))]_vars

\* C10: update_process_state() removes every handle whose process is not alive,
\* also one whose close() raised; the error is logged, not raised, and the name can
\* be started again.
C10_ReapedDespiteCloseError ==
    [][op'.name = "update_process_state" =>
          /\ ~op'.raised
          /\ \A name \in DOMAIN processes :
                 processes[name] /= "running" => name \notin DOMAIN processes'
          /\ op'.logged \subseteq op'.closed]_vars

\* C10 witness: a handle whose close() raised is gone from the map.
C10_Witness ==
    /\ op.name = "update_process_state"
    /\ \E name \in op.logged : name \notin DOMAIN processes /\ unreaped[name] = 0

\* C11: a run_if_relevant call that returns false starts no process, leaves the
\* handle map as it was, and every identity reads the same last start as before (0
\* for one never started).
C11_FalseHasNoEffect ==
    [][(op'.name = "run_if_relevant" /\ ~op'.ret /\ ~op'.raised) =>
          /\ processes' = processes
          /\ unreaped' = unreaped
          /\ launch_tick' = launch_tick
          /\ op'.started = {}
          /\ \A name \in Identities : LastStarted(name)' = LastStarted(name)]_vars

\* C11 witness: a call for a never started identity that is not yet due returned
\* false, and the identity still reads 0.
C11_Witness ==
    /\ op.name = "run_if_relevant"
    /\ ~op.ret
    /\ op.process_name \notin DOMAIN processes
    /\ op.process_name \in DOMAIN last_started_time
    /\ launch_tick[op.process_name] = 0
    /\ last_started_time[op.process_name] = 0

\* C12: a run_if_relevant call that returns true has started exactly one process,
\* recorded under exactly its identity, and stored the entry time truncated to whole
\* seconds for it; the handles and last starts of all other identities are unchanged.
C12_TrueStartsOne ==
    [][(op'.name = "run_if_relevant" /\ op'.ret) =>
          LET id == op'.process_name
          IN  /\ op'.started = {id}
              /\ unreaped' = [unreaped EXCEPT ![id] = @ + 1]
              /\ id \notin DOMAIN processes
              /\ DOMAIN processes' = DOMAIN processes \cup {id}
              /\ processes'[id] = "running"
              /\ \A name \in DOMAIN processes : processes'[name] = processes[name]
              /\ last_started_time'[id] * TicksPerSecond <= now
              /\ now < (last_started_time'[id] + 1) * TicksPerSecond
              /\ \A name \in Identities \ {id} : LastStarted(name)' = LastStarted(name)]_vars

\* C12 witness: a call between two whole seconds returned true beside the running
\* process of another identity.
C12_Witness ==
    /\ op.name = "run_if_relevant"
    /\ op.ret
    /\ processes[op.process_name] = "running"
    /\ last_started_time[op.process_name] * TicksPerSecond < now
    /\ last_started_time[op.process_name] > 0
    /\ \E name \in DOMAIN processes : name /= op.process_name

\* C15: update_process_state() removes exactly the handles whose process is not
\* alive; the others stay as they are, no process is started, and no last start and
\* no field of the scope filter snapshot changes.
C15_UpdateRemovesExactlyDead ==
    [][op'.name = "update_process_state" =>
          /\ DOMAIN processes' = {name \in DOMAIN processes : processes[name] = "running"}
          /\ \A name \in DOMAIN processes' : processes'[name] = "running"
          /\ \A name \in Identities : unreaped'[name] <= unreaped[name]
          /\ last_started_time' = last_started_time
          /\ previous_scopefilter_prefixes' = previous_scopefilter_prefixes
          /\ previous_scopefilter_asns' = previous_scopefilter_asns
          /\ previous_scopefilter_excluded' = previous_scopefilter_excluded]_vars

\* C15 witness: a call removed an exited handle and left a running one.
C15_Witness ==
    /\ op.name = "update_process_state"
    /\ op.closed /= {}
    /\ \A name \in op.closed : name \notin DOMAIN processes
    /\ \E name \in DOMAIN processes : processes[name] = "running"

\* The process names in the order in which run() evaluates them.
RunOrder(cfg) ==
    [k \in 1..(3 + 2 * Len(cfg.source_names)) |->
        IF k = 1 THEN ProcessName(NoSource, ROAImportRunner)
        ELSE IF k = 2 THEN ProcessName(NoSource, RoutePreferenceUpdateRunner)
        ELSE IF k = 3 THEN ProcessName(NoSource, ScopeFilterUpdateRunner)
        ELSE IF k % 2 = 0
        THEN ProcessName(cfg.source_names[(k - 2) \div 2], RPSLMirrorImportUpdateRunner)
        ELSE ProcessName(cfg.source_names[(k - 3) \div 2], SourceExportRunner)]

\* The names run() evaluates after the given one.
After(cfg, name) ==
    {RunOrder(cfg)[k] : k \in {j \in DOMAIN RunOrder(cfg) :
                                  \E i \in 1..(j - 1) : RunOrder(cfg)[i] = name}}

\* The step recorded a handle whose process.start() raised.
FailedStart(name) ==
    /\ name \notin DOMAIN processes
    /\ name \in DOMAIN processes'
    /\ processes'[name] = "unstarted"

\* C13: the last start of an identity changes only when a process was started for
\* it; when process.start() raises, the error leaves run(), the identity keeps its
\* last start, and no identity after it is evaluated in that pass.
C13_FailedStartPropagates ==
    [][/\ \A name \in Identities :
              LastStarted(name)' /= LastStarted(name) => Launched(name)
       /\ op'.raised <=> \E name \in Identities : FailedStart(name)
       /\ \A name \in Identities :
              FailedStart(name) =>
                  /\ ~Launched(name)
                  /\ LastStarted(name)' = LastStarted(name)
                  /\ op'.name = "run" =>
                         \A later \in After(settings, name) :
                             /\ ~Launched(later)
                             /\ later \in DOMAIN processes' <=> later \in DOMAIN processes
                             /\ later \in DOMAIN last_started_time'
                                    <=> later \in DOMAIN last_started_time]_vars

\* C13 witness: a pass started the ROA import, failed to start the mirror import and
\* never looked at the export.
C13_Witness ==
    /\ op.name = "run"
    /\ op.raised
    /\ op.started = {ProcessName(NoSource, ROAImportRunner)}
    /\ processes[ProcessName("s1", RPSLMirrorImportUpdateRunner)] = "unstarted"
    /\ ProcessName("s1", SourceExportRunner) \notin DOMAIN last_started_time

\* C14: close() is called only by update_process_state() and only on handles whose
\* process is not running; a handle leaves the map only after close() was called on
\* it; a recorded handle only goes from running to exited, a process is reaped only
\* after it exited, and update_process_state() closes every exited handle.
C14_HandleLifecycle ==
    [][/\ op'.name /= "update_process_state" => op'.closed = {}
       /\ \A name \in op'.closed :
              name \in DOMAIN processes /\ processes[name] /= "running"
       /\ \A name \in DOMAIN processes \ DOMAIN processes' : name \in op'.closed
       /\ \A name \in DOMAIN processes \cap DOMAIN processes' :
              processes'[name] /= processes[name] =>
                  processes[name] = "running" /\ processes'[name] = "exited"
       /\ \A name \in Identities :
              unreaped'[name] < unreaped[name] =>
                  name \in DOMAIN processes /\ processes[name] = "exited"
       /\ op'.name = "update_process_state" =>
              \A name \in DOMAIN processes :
                  processes[name] = "exited" =>
                      name \in op'.closed /\ name \notin DOMAIN processes']_vars

\* C14 witness: update_process_state() closed and removed the handle of a process
\* that had been started and had exited, without an error.
C14_Witness ==
    /\ op.name = "update_process_state"
    /\ op.logged = {}
    /\ \E name \in op.closed :
           /\ name \notin DOMAIN processes
           /\ launch_tick[name] > 0
           /\ unreaped[name] = 0

\* C17: terminate_children() calls terminate() on every recorded handle, whichever
\* of them raise; no error leaves it, the children whose terminate() and join()
\* returned have ended, and no handle is removed.
C17_TerminateAll ==
    [][op'.name = "terminate_children" =>
          /\ ~op'.raised
          /\ op'.terminated = DOMAIN processes
          /\ op'.swallowed \subseteq op'.terminated
          /\ DOMAIN processes' = DOMAIN processes
          /\ \A name \in DOMAIN processes \ op'.swallowed :
                 processes[name] = "running" => processes'[name] = "exited"
          /\ unreaped' = unreaped
          /\ last_started_time' = last_started_time]_vars

\* C17 witness: one child raised and another was terminated all the same.
C17_Witness ==
    /\ op.name = "terminate_children"
    /\ op.swallowed /= {}
    /\ \E name \in op.terminated \ op.swallowed : processes[name] = "exited"

\* C19: a failed start leaves the handle recorded; while it is recorded no process
\* is started for the identity and run_if_relevant returns false for it; only
\* update_process_state() removes it, and does so at its next call; a due call made
\* after that starts the identity.
C19_FailedStartBlocksUntilReaped ==
    [][\A name \in Identities :
          /\ (op'.raised /\ op'.name = "run_if_relevant" /\ op'.process_name = name) =>
                 FailedStart(name)
          /\ (name \in DOMAIN processes /\ processes[name] = "unstarted") =>
                 /\ ~Launched(name)
                 /\ (op'.name = "run_if_relevant" /\ op'.process_name = name) =>
                        ~op'.ret /\ ~op'.raised
                 /\ op'.name = "update_process_state" <=> name \notin DOMAIN processes'
                 /\ name \in DOMAIN processes' => processes'[name] = "unstarted"
          /\ (/\ op'.name = "run_if_relevant"
              /\ op'.process_name = name
              /\ ~op'.raised
              /\ name \notin DOMAIN processes
              /\ (LastStarted(name) + op'.timer) * TicksPerSecond < now) =>
                 op'.ret /\ Launched(name)]_vars

\* C19 witness: run_if_relevant returned false for a due identity whose recorded
\* handle never started.
C19_Witness ==
    /\ op.name = "run_if_relevant"
    /\ ~op.ret
    /\ op.process_name \in DOMAIN processes
    /\ processes[op.process_name] = "unstarted"
    /\ unreaped[op.process_name] = 0
    /\ (LastStarted(op.process_name) + op.timer) * TicksPerSecond < now

\* C18: a recorded handle blocks its identity whether its process is running or has
\* ended; while update_process_state() is never called no handle leaves the map and
\* every identity is started at most once.
C18_OnceWithoutReaping ==
    [][\A name \in Identities :
          /\ name \in DOMAIN processes =>
                 /\ name \in DOMAIN processes'
                 /\ ~Launched(name)
          /\ unreaped'[name] <= 1
          /\ Launched(name) => launch_tick[name] = 0
          /\ (op'.name = "run_if_relevant" /\ op'.process_name = name
                 /\ name \in DOMAIN processes) => ~op'.ret]_vars

\* C18 witness: a pass long after the timer-0 import ended started nothing for it.
C18_Witness ==
    LET name == ProcessName("s1", RPSLMirrorImportUpdateRunner)
    IN  /\ op.name = "run"
        /\ name \in DOMAIN processes
        /\ processes[name] = "exited"
        /\ name \notin op.started
        /\ launch_tick[name] > 0
        /\ now >= launch_tick[name] + 2 * TicksPerSecond

\* The name has no handle and its timer has passed since its stored last start.
Due(name, timer) ==
    /\ name \notin DOMAIN processes
    /\ (LastStarted(name) + timer) * TicksPerSecond < now

\* The i-th source is reached by a pass that started the given processes: fewer than
\* MAX_SIMULTANEOUS_RUNS sources before it had a job started.
Reached(i, started) ==
    Cardinality({j \in 1..(i - 1) : settings.source_names[j] \in StartedSources(started)})
        < MAX_SIMULTANEOUS_RUNS

PerSourceNames ==
    {ProcessName(source, runner_class) :
        source \in AllSources,
        runner_class \in {RPSLMirrorImportUpdateRunner, SourceExportRunner}}

\* C16: the cap of a run() pass counts the sources that had a job started: a source
\* is evaluated exactly when fewer than 3 sources before it started a job, whatever
\* the number of processes started and whatever the singleton jobs did; a pass starts
\* at most one process per name, at most 6 for sources and at most 9 in all.
C16_CapCountsStartedSources ==
    [][op'.name = "run" =>
          /\ \A name \in Identities :
                 /\ unreaped'[name] <= unreaped[name] + 1
                 /\ name \in op'.started <=> Launched(name)
          /\ \A i \in 1..Len(settings.source_names) :
                 LET source == settings.source_names[i]
                     ss == settings.sources[source]
                     import == ProcessName(source, RPSLMirrorImportUpdateRunner)
                     export == ProcessName(source, SourceExportRunner)
                 IN  /\ Launched(import) <=>
                            /\ Reached(i, op'.started)
                            /\ IsMirror(ss)
                            /\ Due(import, ss.import_timer)
                     /\ Launched(export) <=>
                            /\ Reached(i, op'.started)
                            /\ RunsExport(ss)
                            /\ Due(export, ss.export_timer)
          /\ Launched(ProcessName(NoSource, ROAImportRunner)) <=>
                 /\ settings.roa_source
                 /\ Due(ProcessName(NoSource, ROAImportRunner), settings.roa_import_timer)
          /\ Launched(ProcessName(NoSource, RoutePreferenceUpdateRunner)) <=>
                 /\ AnyRoutePreference(settings)
                 /\ Due(ProcessName(NoSource, RoutePreferenceUpdateRunner),
                        settings.route_object_preference_update_timer)
          /\ Launched(ProcessName(NoSource, ScopeFilterUpdateRunner)) <=>
                 /\ op'.changed
                 /\ Due(ProcessName(NoSource, ScopeFilterUpdateRunner), 0)
          /\ Cardinality(StartedSources(op'.started)) <= MAX_SIMULTANEOUS_RUNS
          /\ Cardinality(op'.started \cap PerSourceNames) <= 2 * MAX_SIMULTANEOUS_RUNS
          /\ Cardinality(op'.started) <= 2 * MAX_SIMULTANEOUS_RUNS + 3]_vars

\* C16 witness: a pass started the three singleton jobs and the import and the export
\* of three sources, 9 processes, and left the other sources for a later pass.
C16_Witness ==
    /\ op.name = "run"
    /\ Cardinality(op.started) = 9
    /\ Cardinality(StartedSources(op.started)) = MAX_SIMULTANEOUS_RUNS
    /\ skipped = {"s4", "s5"}

\* C20 as stated: with run() and update_process_state() called again and again, every
\* child ending and the clock advancing, the import of every mirrored source is
\* started infinitely often.
C20_NoStarvation ==
    []<>(/\ op.name = "run"
         /\ ProcessName("s4", RPSLMirrorImportUpdateRunner) \in op.started)

====
